---- MODULE Spec2Model ----
(***************************************************************************)
(* Asynchronous content-moderation pipeline of the video processing        *)
(* backend: upload (job submission), the RekognitionPoller background      *)
(* loop, result processing, Socket.IO notification, and the request        *)
(* handlers that share the video collection with the poller.               *)
(***************************************************************************)
EXTENDS Integers, Sequences, FiniteSets, Bags, TLC

(* ------------------------------------------------------------------ *)
(* Bounds of the model                                                  *)
(* ------------------------------------------------------------------ *)
MaxFaults == 2
MaxPolls == 2
MaxClock == 1
MaxDirectEvents == 4
MaxLabels == 3
MaxJobLabels == 2
MaxCalls == 2
\* wait_for_job_completion: the settings tried and the queries counted
MaxInterval == 3
MaxWait == 4
MaxQueries == 5

\* the _id values insert_one hands out, in this order
VideoIds == {1, 2}

(* ------------------------------------------------------------------ *)
(* models/video.py: the status enumerations                             *)
(* ------------------------------------------------------------------ *)
VideoStatus ==
  {"pending", "uploaded", "processing", "processing_pending",
   "completed", "failed", "flagged"}

SensitivityStatus == {"safe", "flagged"}

\* Python's None in a field of a document
None == "None"

TerminalStatus == {"completed", "failed", "flagged"}

(* ------------------------------------------------------------------ *)
(* services/aws_rekognition_analyzer.py: parse_moderation_labels        *)
(* ------------------------------------------------------------------ *)
flagged_categories ==
  {"Explicit Nudity", "Nudity", "Graphic Male Nudity", "Graphic Female Nudity",
   "Sexual Activity", "Illustrated Explicit Nudity", "Adult Toys",
   "Violence", "Graphic Violence", "Physical Violence", "Weapon Violence",
   "Weapons", "Self Injury", "Emaciated Bodies", "Corpses",
   "Hanging", "Air Crash", "Explosions And Blasts",
   "Visually Disturbing", "Gambling", "Hate Symbols",
   "Rude Gestures", "Middle Finger"}

suggestive_categories ==
  {"Suggestive", "Female Swimwear Or Underwear", "Male Swimwear Or Underwear",
   "Revealing Clothes", "Partial Nudity"}

\* A Confidence that is not a number (None): `confidence > max_confidence`
\* raises TypeError on it.
NullConfidence == 0 - 1

\* str.lower() on one character
LowerChar(c) ==
  CASE c = "A" -> "a" [] c = "B" -> "b" [] c = "C" -> "c" [] c = "D" -> "d"
    [] c = "E" -> "e" [] c = "F" -> "f" [] c = "G" -> "g" [] c = "H" -> "h"
    [] c = "I" -> "i" [] c = "J" -> "j" [] c = "K" -> "k" [] c = "L" -> "l"
    [] c = "M" -> "m" [] c = "N" -> "n" [] c = "O" -> "o" [] c = "P" -> "p"
    [] c = "Q" -> "q" [] c = "R" -> "r" [] c = "S" -> "s" [] c = "T" -> "t"
    [] c = "U" -> "u" [] c = "V" -> "v" [] c = "W" -> "w" [] c = "X" -> "x"
    [] c = "Y" -> "y" [] c = "Z" -> "z" [] OTHER -> c

RECURSIVE Lower(_)
Lower(s) ==
  IF Len(s) = 0 THEN ""
  ELSE LowerChar(SubSeq(s, 1, 1)) \o Lower(SubSeq(s, 2, Len(s)))

\* Python's `kw in s` on strings
Contains(s, kw) ==
  \E i \in 1..(Len(s) - Len(kw) + 1) : SubSeq(s, i, i + Len(kw) - 1) = kw

\* Python's `x in list`
InList(x, list) == \E i \in 1..Len(list) : list[i] = x

\* the label of one entry, with the defaults of the .get calls
LabelName(label_data) == label_data.ModerationLabel.Name
LabelConfidence(label_data) == label_data.ModerationLabel.Confidence
LabelParent(label_data) == label_data.ModerationLabel.ParentName

\* the comparison `confidence > max_confidence` raises for this payload
ParseRaises(moderation_labels) ==
  \E i \in 1..Len(moderation_labels) :
    LabelConfidence(moderation_labels[i]) = NullConfidence

\* ShouldFlag without the test of the parent name
ShouldFlagByName(label_data) ==
  LabelName(label_data) \in flagged_categories

ShouldFlag(label_data) ==
  \/ LabelName(label_data) \in flagged_categories
  \/ LabelParent(label_data) \in flagged_categories

\* CollectFlags without `if label_name not in flags`
RECURSIVE CollectFlagsKeepsDuplicates(_, _)
CollectFlagsKeepsDuplicates(moderation_labels, flags) ==
  IF moderation_labels = <<>> THEN flags
  ELSE LET label_data == Head(moderation_labels)
       IN  CollectFlagsKeepsDuplicates(Tail(moderation_labels),
             IF LabelName(label_data) \in flagged_categories
                  \/ LabelParent(label_data) \in flagged_categories
               THEN Append(flags, LabelName(label_data))
               ELSE flags)

\* the loop over moderation_labels that builds `flags`
RECURSIVE CollectFlags(_, _)
CollectFlags(moderation_labels, flags) ==
  IF moderation_labels = <<>> THEN flags
  ELSE LET label_data == Head(moderation_labels)
           label_name == LabelName(label_data)
       IN  CollectFlags(Tail(moderation_labels),
             IF ShouldFlag(label_data) /\ ~InList(label_name, flags)
               THEN Append(flags, label_name)
               ELSE flags)

\* MaxConfidence over the flagging labels only
RECURSIVE MaxFlaggedConfidence(_, _)
MaxFlaggedConfidence(moderation_labels, max_confidence) ==
  IF moderation_labels = <<>> THEN max_confidence
  ELSE LET label_data == Head(moderation_labels)
           confidence == LabelConfidence(label_data)
       IN  MaxFlaggedConfidence(Tail(moderation_labels),
             IF (LabelName(label_data) \in flagged_categories
                   \/ LabelParent(label_data) \in flagged_categories)
                  /\ confidence > max_confidence
               THEN confidence ELSE max_confidence)

\* the loop over moderation_labels that tracks max_confidence
RECURSIVE MaxConfidence(_, _)
MaxConfidence(moderation_labels, max_confidence) ==
  IF moderation_labels = <<>> THEN max_confidence
  ELSE LET confidence == LabelConfidence(Head(moderation_labels))
       IN  MaxConfidence(Tail(moderation_labels),
             IF confidence > max_confidence THEN confidence ELSE max_confidence)

LabelDetail(label_data) ==
  [name |-> LabelName(label_data),
   confidence |-> LabelConfidence(label_data),
   timestamp |-> label_data.Timestamp,
   parent |-> LabelParent(label_data)]

LabelDetails(moderation_labels) ==
  [i \in 1..Len(moderation_labels) |-> LabelDetail(moderation_labels[i])]

\* IsViolence without the lower-casing of the flag
IsViolenceCaseSensitive(f) == Contains(f, "violence") \/ Contains(f, "weapon")

IsViolence(f) == Contains(Lower(f), "violence") \/ Contains(Lower(f), "weapon")
IsNsfw(f) == Contains(Lower(f), "nudity") \/ Contains(Lower(f), "sexual")
IsDisturbing(f) ==
  \/ Contains(Lower(f), "disturbing")
  \/ Contains(Lower(f), "corpse")
  \/ Contains(Lower(f), "injury")

\* label_details[:10]
TopLabels == 10

parse_moderation_labels(moderation_labels) ==
  LET flags == CollectFlags(moderation_labels, <<>>)
      violence_flags == SelectSeq(flags, IsViolence)
      nsfw_flags == SelectSeq(flags, IsNsfw)
      disturbing_flags == SelectSeq(flags, IsDisturbing)
      Uncategorised(f) ==
        ~InList(f, violence_flags \o nsfw_flags \o disturbing_flags)
      details == LabelDetails(moderation_labels)
  IN  [is_flagged |-> Len(flags) > 0,
       is_safe |-> ~(Len(flags) > 0),
       flags |-> flags,
       violence_flags |-> violence_flags,
       nsfw_flags |-> nsfw_flags,
       disturbing_flags |-> disturbing_flags,
       other_flags |-> SelectSeq(flags, Uncategorised),
       confidence |-> MaxConfidence(moderation_labels, 0),
       total_labels |-> Len(moderation_labels),
       label_details |->
         SubSeq(details, 1, IF Len(details) < TopLabels THEN Len(details) ELSE TopLabels)]

(* ------------------------------------------------------------------ *)
(* State                                                                *)
(* ------------------------------------------------------------------ *)
VARIABLES
  videos,      \* db.videos: video id -> document (DOMAIN = documents present)
  nextId,      \* the next _id insert_one hands out (ids are never reused)
  users,       \* db.users: userId of an admin -> its connected_users list
  configured,  \* AWSRekognitionAnalyzer() could be constructed (same env for both)
  job,         \* Rekognition: JobStatus of the job started for a video
  labels,      \* Rekognition: ModerationLabels of that job
  now,         \* datetime.utcnow()
  pc,          \* RekognitionPoller.start task: where it is suspended
  cyc,         \* this poll cycle: per video, "todo" or what its poll answered
  cfault,      \* this poll cycle: per video, what raised while handling it
  cur,         \* the video whose events are being emitted
  rooms,       \* target rooms still to emit to
  evt,         \* the event being emitted
  emitted,     \* Socket.IO: bag of the events delivered to rooms
  pollErrs,    \* number of get_content_moderation_results calls that raised
  faults,      \* number of store and Socket.IO calls that raised
  inprog,      \* number of IN_PROGRESS answers so far (saturating at MaxPolls)
  running,     \* RekognitionPoller.running
  life,        \* lifespan: "serving", then "stopped" (stop() returned), then
               \* "cancelled" (poller_task.cancel() and the await of the task)
  s3Errs,      \* number of s3_client.delete_object calls that raised
  args,        \* parse_moderation_labels called directly: its moderation_labels
  ret,         \* what each of these calls returned, in the order of the calls
  response,    \* stream_video: the answer to the last request
  wait         \* wait_for_job_completion called directly: its locals

vars ==
  <<videos, nextId, users, configured, job, labels, now, pc, cyc, cfault,
    cur, rooms, evt, emitted, pollErrs, faults, inprog, running, life,
    s3Errs, args, ret, response, wait>>

\* the admin account that owns the videos, and an editor registered with its
\* admin key (routes/auth.py register puts it in connected_users)
AdminId == "A1"
EditorId == "E1"

\* the accounts that register with the admin's key, EditorId the first
Editors == {"E1", "E2"}

Titles == {"t1", "t2"}

\* job results Rekognition can return
Label(name, confidence, parent) ==
  [Timestamp |-> 0,
   ModerationLabel |-> [Name |-> name, Confidence |-> confidence, ParentName |-> parent]]

JobResults ==
  { <<>>,
    <<Label("Suggestive", 60, "")>>,
    <<Label("Suggestive", 60, ""), Label("Pistol", 91, "Weapons")>>,
    <<Label("Weapons", NullConfidence, "")>> }

JobId(v) == "job-" \o ToString(v)
S3Key(v) == "videos/A1/" \o ToString(v)

NoEvent == [name |-> "none", data |-> <<>>]

(* ------------------------------------------------------------------ *)
(* pymongo                                                              *)
(* ------------------------------------------------------------------ *)
\* update_one({"_id": v}, {"$set": fields}): no match, no change
update_one(store, v, fields) ==
  IF v \in DOMAIN store
    THEN [store EXCEPT ![v] =
            [k \in DOMAIN @ |-> IF k \in DOMAIN fields THEN fields[k] ELSE @[k]]]
    ELSE store

\* insert_one(doc) under a fresh _id
insert_one(store, v, doc) ==
  [x \in DOMAIN store \cup {v} |-> IF x = v THEN doc ELSE store[x]]

\* delete_one({"_id": v})
delete_one(store, v) == [x \in DOMAIN store \ {v} |-> store[x]]

\* the find without its status condition
pending_videos_any_status(store) ==
  {v \in DOMAIN store : store[v].rekognitionJobId # None}

\* the find with the status of another stage
pending_videos_processing(store) ==
  {v \in DOMAIN store :
     /\ store[v].status = "processing"
     /\ store[v].rekognitionJobId # None}

\* find({"status": "processing_pending",
\*       "metadata.rekognitionJobId": {"$exists": True, "$ne": None}})
pending_videos(store) ==
  {v \in DOMAIN store :
     /\ store[v].status = "processing_pending"
     /\ store[v].rekognitionJobId # None}

\* a call may raise while fewer than MaxFaults calls have raised (n more
\* have in the step being taken)
MayRaise(n) == pollErrs + faults + s3Errs + n < MaxFaults

(* ------------------------------------------------------------------ *)
(* routes/videos.py                                                     *)
(* ------------------------------------------------------------------ *)
video_doc(v, title, video_status, rekognition_job_id, s3_key, analysis_data) ==
  [userId |-> AdminId,
   title |-> title,
   filename |-> "f.mp4",
   s3Key |-> s3_key,
   status |-> video_status,
   processingProgress |-> 0,
   sensitivityStatus |-> None,
   rekognitionJobId |-> rekognition_job_id,
   analysis |-> analysis_data]

\* upload_video, analyze_video_async returned a job id
UploadOk(title) ==
  /\ configured
  /\ nextId \in VideoIds
  /\ videos' = insert_one(videos, nextId,
       video_doc(nextId, title, "processing_pending", JobId(nextId), S3Key(nextId),
         [rekognition_job_id |-> JobId(nextId),
          s3_key |-> S3Key(nextId),
          status |-> "IN_PROGRESS",
          started_at |-> now]))
  /\ job' = [job EXCEPT ![nextId] = "IN_PROGRESS"]
  /\ nextId' = nextId + 1
  /\ UNCHANGED <<users, configured, wait, response, args, ret, s3Errs, running,
                 life, labels, now, pc, cyc, cfault, cur, rooms, evt, emitted,
                 pollErrs, faults, inprog>>

\* UploadFailed with the record left in the initial status of the enumeration
UploadFailedAsPending(title) ==
  /\ configured
  /\ nextId \in VideoIds
  /\ videos' = insert_one(videos, nextId,
       video_doc(nextId, title, "pending", None, S3Key(nextId),
         [error |-> "submit error"]))
  /\ nextId' = nextId + 1
  /\ UNCHANGED <<users, configured, wait, response, args, ret, s3Errs, running,
                 life, job, labels, now, pc, cyc, cfault, cur, rooms, evt,
                 emitted, pollErrs, faults, inprog>>

\* UploadFailed with video_status left at its default
UploadFailedStaysPending(title) ==
  /\ configured
  /\ nextId \in VideoIds
  /\ videos' = insert_one(videos, nextId,
       video_doc(nextId, title, "processing_pending", None, S3Key(nextId),
         [error |-> "submit error"]))
  /\ nextId' = nextId + 1
  /\ UNCHANGED <<users, configured, wait, response, args, ret, s3Errs, running,
                 life, job, labels, now, pc, cyc, cfault, cur, rooms, evt,
                 emitted, pollErrs, faults, inprog>>

\* upload_video, upload_to_s3 or start_content_moderation raised
UploadFailed(title) ==
  /\ configured
  /\ nextId \in VideoIds
  /\ videos' = insert_one(videos, nextId,
       video_doc(nextId, title, "failed", None, S3Key(nextId),
         [error |-> "submit error"]))
  /\ nextId' = nextId + 1
  /\ UNCHANGED <<users, configured, wait, response, args, ret, s3Errs, running,
                 life, job, labels, now, pc, cyc, cfault, cur, rooms, evt,
                 emitted, pollErrs, faults, inprog>>

\* upload_video, video_analyzer is None
UploadUnconfigured(title) ==
  /\ ~configured
  /\ nextId \in VideoIds
  /\ videos' = insert_one(videos, nextId,
       video_doc(nextId, title, "uploaded", None, None,
         [error |-> "AWS Rekognition not configured"]))
  /\ nextId' = nextId + 1
  /\ UNCHANGED <<users, configured, wait, response, args, ret, s3Errs, running,
                 life, job, labels, now, pc, cyc, cfault, cur, rooms, evt,
                 emitted, pollErrs, faults, inprog>>

upload_video_titled(titles) ==
  \E title \in titles :
    UploadOk(title) \/ UploadFailed(title) \/ UploadUnconfigured(title)

upload_video == upload_video_titled(Titles)

\* register of an editor or viewer with the admin's key:
\* $addToSet of its fresh userId on the admin's connected_users
register ==
  \E user_id \in Editors :
    /\ ~InList(user_id, users[AdminId])
    /\ users' = [users EXCEPT ![AdminId] = Append(@, user_id)]
    /\ UNCHANGED <<videos, nextId, configured, wait, response, args, ret, s3Errs,
                   running, life, job, labels, now, pc, cyc, cfault, cur,
                   rooms, evt, emitted, pollErrs, faults, inprog>>

\* the file names a request can carry: with an extension, without one
Filenames == {"g.mp4", "g"}

\* os.path.splitext(filename)[1] is not empty (names without directory part
\* and without leading dots)
HasExtension(filename) ==
  \E i \in 2..Len(filename) : SubSeq(filename, i, i) = "."

\* update_fields of update_video
UpdateFields(title, filename) ==
  [k \in {x \in {"title", "filename"} :
            \/ x = "title" /\ title # None
            \/ x = "filename" /\ filename # None}
     |-> IF k = "title" THEN title ELSE filename]

\* update_video_fields with an update that sends the video back to uploaded
update_video_resets_status(titles, filenames) ==
  \E v \in DOMAIN videos, title \in titles, filename \in filenames :
    /\ filename = None \/ HasExtension(filename)
    /\ DOMAIN UpdateFields(title, filename) # {}
    /\ videos' = update_one(update_one(videos, v, UpdateFields(title, filename)),
                            v, [status |-> "uploaded"])
    /\ UNCHANGED <<nextId, users, configured, wait, response, args, ret, s3Errs,
                   running, life, job, labels, now, pc, cyc, cfault, cur,
                   rooms, evt, emitted, pollErrs, faults, inprog>>

\* update_video by a user who may edit v, with the title and the filename of
\* the request drawn from `titles` and `filenames` (None: not given); the
\* 400, 403 and 404 answers change nothing
update_video_fields(titles, filenames) ==
  \E v \in DOMAIN videos, title \in titles, filename \in filenames :
    /\ filename = None \/ HasExtension(filename)
    /\ DOMAIN UpdateFields(title, filename) # {}
    /\ videos' = update_one(videos, v, UpdateFields(title, filename))
    /\ UNCHANGED <<nextId, users, configured, wait, response, args, ret, s3Errs,
                   running, life, job, labels, now, pc, cyc, cfault, cur,
                   rooms, evt, emitted, pollErrs, faults, inprog>>

\* update_video with a title (the filename is left as it is)
update_video == update_video_fields(Titles, {None})

\* no request answered yet
NoResponse == [videoId |-> 0, status_code |-> 0, url |-> None]

\* what head_object does: it returns, it raises NoSuchKey, it raises
\* another exception
S3Outcomes == {"ok", "NoSuchKey", "error"}

\* the presigned URL of get_s3_url
PresignedUrl(s3_key) == "https://s3/" \o s3_key \o "?X-Amz-Expires=3600"

Answer(v, status_code, url) ==
  [videoId |-> v, status_code |-> status_code, url |-> url]

\* StreamAnswer without the tests of the status
StreamAnswerAnyStatus(v, store, analyzer, head_object) ==
  IF v \notin DOMAIN store THEN Answer(v, 404, None)
  ELSE IF store[v].s3Key # None /\ analyzer
    THEN CASE head_object = "ok" -> Answer(v, 307, PresignedUrl(store[v].s3Key))
           [] head_object = "NoSuchKey" -> Answer(v, 404, None)
           [] OTHER -> Answer(v, 500, None)
  ELSE Answer(v, 404, None)

\* the answer of stream_video to a user who may view v
StreamAnswer(v, store, analyzer, head_object) ==
  IF v \notin DOMAIN store THEN Answer(v, 404, None)
  ELSE IF store[v].status = "flagged" THEN Answer(v, 403, None)
  ELSE IF store[v].status = "processing_pending" THEN Answer(v, 400, None)
  ELSE IF store[v].status \notin {"uploaded", "completed"} THEN Answer(v, 400, None)
  ELSE IF store[v].s3Key # None /\ analyzer
    THEN CASE head_object = "ok" -> Answer(v, 307, PresignedUrl(store[v].s3Key))
           [] head_object = "NoSuchKey" -> Answer(v, 404, None)
           [] OTHER -> Answer(v, 500, None)
  ELSE Answer(v, 404, None)

\* stream_video
stream_video ==
  \E v \in VideoIds, head_object \in S3Outcomes :
    /\ response' = StreamAnswer(v, videos, configured, head_object)
    /\ UNCHANGED <<videos, nextId, users, configured, wait, args, ret, s3Errs,
                   running, life, job, labels, now, pc, cyc, cfault, cur,
                   rooms, evt, emitted, pollErrs, faults, inprog>>

\* delete_video with the exception of delete_object leaving the handler
delete_video_s3_error_aborts ==
  \E v \in DOMAIN videos :
    \/ /\ videos' = delete_one(videos, v)
       /\ UNCHANGED <<nextId, users, configured, wait, response, args, ret, s3Errs,
                      running, life, job, labels, now, pc, cyc, cfault, cur,
                      rooms, evt, emitted, pollErrs, faults, inprog>>
    \/ /\ videos[v].s3Key # None /\ configured
       /\ MayRaise(0)
       /\ s3Errs' = s3Errs + 1
       /\ UNCHANGED <<videos, nextId, users, configured, wait, response, args, ret,
                      running, life, job, labels, now, pc, cyc, cfault, cur,
                      rooms, evt, emitted, pollErrs, faults, inprog>>

\* delete_video by a user who may delete v (the 400, 403 and 404 answers
\* change nothing)
delete_video ==
  \E v \in DOMAIN videos :
    \/ \* delete_object returns, or there is no S3 key or no analyzer
       /\ videos' = delete_one(videos, v)
       /\ UNCHANGED <<nextId, users, configured, wait, response, args, ret, s3Errs,
                      running, life, job, labels, now, pc, cyc, cfault, cur,
                      rooms, evt, emitted, pollErrs, faults, inprog>>
    \/ \* delete_object raises: logged, the document is deleted all the same
       /\ videos[v].s3Key # None /\ configured
       /\ MayRaise(0)
       /\ s3Errs' = s3Errs + 1
       /\ videos' = delete_one(videos, v)
       /\ UNCHANGED <<nextId, users, configured, wait, response, args, ret, running,
                      life, job, labels, now, pc, cyc, cfault, cur, rooms,
                      evt, emitted, pollErrs, faults, inprog>>

(* ------------------------------------------------------------------ *)
(* The remote moderation job and the clock                              *)
(* ------------------------------------------------------------------ *)
\* the job of a video ends SUCCEEDED with one of `results`
JobSucceedsWith(results) ==
  \E v \in VideoIds, result \in results :
    /\ job[v] = "IN_PROGRESS"
    /\ job' = [job EXCEPT ![v] = "SUCCEEDED"]
    /\ labels' = [labels EXCEPT ![v] = result]
    /\ UNCHANGED <<videos, nextId, users, configured, wait, response, args, ret,
                   s3Errs, running, life, now, pc, cyc, cfault, cur, rooms,
                   evt, emitted, pollErrs, faults, inprog>>

JobSucceeds == JobSucceedsWith(JobResults)

JobFails ==
  \E v \in VideoIds :
    /\ job[v] = "IN_PROGRESS"
    /\ job' = [job EXCEPT ![v] = "FAILED"]
    /\ UNCHANGED <<videos, nextId, users, configured, wait, response, args, ret,
                   s3Errs, running, life, labels, now, pc, cyc, cfault, cur,
                   rooms, evt, emitted, pollErrs, faults, inprog>>

\* job statuses the API may answer besides IN_PROGRESS, SUCCEEDED, FAILED
OtherJobStatus == {"UNKNOWN"}

\* the job of a video takes a status the poller does not know
JobTurnsUnknown ==
  \E v \in VideoIds, job_status \in OtherJobStatus :
    /\ job[v] = "IN_PROGRESS"
    /\ job' = [job EXCEPT ![v] = job_status]
    /\ UNCHANGED <<videos, nextId, users, configured, wait, response, args, ret,
                   s3Errs, running, life, labels, now, pc, cyc, cfault, cur,
                   rooms, evt, emitted, pollErrs, faults, inprog>>

Tick ==
  /\ now < MaxClock
  /\ now' = now + 1
  /\ UNCHANGED <<videos, nextId, users, configured, wait, response, args, ret,
                 s3Errs, running, life, job, labels, pc, cyc, cfault, cur,
                 rooms, evt, emitted, pollErrs, faults, inprog>>

(* ------------------------------------------------------------------ *)
(* services/rekognition_poller.py                                       *)
(* ------------------------------------------------------------------ *)
\* ', '.join(list)
RECURSIVE Join(_)
Join(list) ==
  IF list = <<>> THEN ""
  ELSE IF Len(list) = 1 THEN Head(list)
  ELSE Head(list) \o ", " \o Join(Tail(list))

\* SuccessSet with the verdict not following the flags
SuccessSetAlwaysSafe(analysis, t) ==
  [status |-> IF analysis.is_flagged THEN "flagged" ELSE "completed",
   processingProgress |-> 100,
   sensitivityStatus |-> "safe",
   analysis |->
     [flags |-> analysis.flags,
      violence_flags |-> analysis.violence_flags,
      nsfw_flags |-> analysis.nsfw_flags,
      disturbing_flags |-> analysis.disturbing_flags,
      confidence |-> analysis.confidence,
      total_labels |-> analysis.total_labels,
      label_details |-> analysis.label_details,
      completed_at |-> t,
      status |-> "COMPLETED"]]

\* the $set document of process_success
SuccessSet(analysis, t) ==
  [status |-> IF analysis.is_flagged THEN "flagged" ELSE "completed",
   processingProgress |-> 100,
   sensitivityStatus |-> IF analysis.is_flagged THEN "flagged" ELSE "safe",
   analysis |->
     [flags |-> analysis.flags,
      violence_flags |-> analysis.violence_flags,
      nsfw_flags |-> analysis.nsfw_flags,
      disturbing_flags |-> analysis.disturbing_flags,
      confidence |-> analysis.confidence,
      total_labels |-> analysis.total_labels,
      label_details |-> analysis.label_details,
      completed_at |-> t,
      status |-> "COMPLETED"]]

\* FailureSet without the reset of the progress
FailureSetKeepsProgress(error_message, t) ==
  [status |-> "failed",
   analysis |-> [error |-> error_message, failed_at |-> t, status |-> "FAILED"]]

\* the $set document of process_failure
FailureSet(error_message, t) ==
  [status |-> "failed",
   processingProgress |-> 0,
   analysis |-> [error |-> error_message, failed_at |-> t, status |-> "FAILED"]]

\* target_rooms without the connected users
target_rooms_owner_only(user_id) == <<user_id>>

\* target_rooms of process_success: the owner, then its connected users
target_rooms(user_id) ==
  <<user_id>> \o (IF user_id \in DOMAIN users THEN users[user_id] ELSE <<>>)

\* event_data of process_success
CompletedEvent(v, user_id, analysis) ==
  [name |-> "processing_completed",
   data |->
     IF analysis.is_flagged
       THEN [videoId |-> v, userId |-> user_id, sensitivityStatus |-> "flagged",
             status |-> "flagged", flags |-> analysis.flags,
             message |-> "Video flagged for: " \o Join(analysis.flags)]
       ELSE [videoId |-> v, userId |-> user_id, sensitivityStatus |-> "safe",
             status |-> "completed",
             message |-> "Video is safe and ready for playback"]]

\* the event of process_failure
FailedEvent(v, user_id, error_message) ==
  [name |-> "processing_failed",
   data |-> [videoId |-> v, userId |-> user_id, error |-> error_message,
             message |-> "Video analysis failed. Please try uploading again."]]

\* sio.emit(name, data, room=room) delivered
Deliver(bag, event, room) ==
  bag (+) SetToBag({[name |-> event.name, room |-> room, data |-> event.data]})

\* back in the `for video in pending_videos` loop, or out of it
Resume(c) ==
  /\ pc' = IF \E x \in VideoIds : c[x] = "todo" THEN "poll" ELSE "sleep"
  /\ cur' = {}
  /\ rooms' = <<>>
  /\ evt' = NoEvent

\* process_failure that logs and writes nothing
process_failure_logs_only(store, v, error_message, n, f) ==
  /\ videos' = store
  /\ faults' = faults + n
  /\ cfault' = [cfault EXCEPT ![v] = @ \cup f]
  /\ Resume(cyc')

\* process_failure(video, error_message) up to its first await, on the
\* collection as `store`; `n` calls have raised in this step before it,
\* `f` names them
process_failure(store, v, error_message, n, f) ==
  \/ \* update_one returns; the event is about to be emitted
     /\ videos' = update_one(store, v, FailureSet(error_message, now))
     /\ faults' = faults + n
     /\ cfault' = [cfault EXCEPT ![v] = @ \cup f]
     /\ pc' = "emit"
     /\ cur' = {v}
     /\ rooms' = <<AdminId>>
     /\ evt' = FailedEvent(v, AdminId, error_message)
  \/ \* update_one raises: logged, process_failure returns
     /\ MayRaise(n)
     /\ videos' = store
     /\ faults' = faults + n + 1
     /\ cfault' = [cfault EXCEPT ![v] = @ \cup f \cup {"failure_update"}]
     /\ Resume(cyc')

\* RekognitionPoller.start up to the first poll_pending_videos
Start ==
  /\ pc = "start"
  /\ pc' = IF configured THEN "sleep" ELSE "returned"
  /\ running' = IF configured THEN TRUE ELSE running
  /\ UNCHANGED <<videos, nextId, users, configured, wait, response, args, ret,
                 s3Errs, life, job, labels, now, cyc, cfault, cur, rooms, evt,
                 emitted, pollErrs, faults, inprog>>

\* poll_pending_videos: the find, answered
Query ==
  /\ pc = "sleep"
  /\ running
  /\ cyc' = [v \in VideoIds |-> IF v \in pending_videos(videos) THEN "todo" ELSE "none"]
  /\ cfault' = [v \in VideoIds |-> {}]
  /\ Resume(cyc')
  /\ UNCHANGED <<videos, nextId, users, configured, wait, response, args, ret,
                 s3Errs, running, life, job, labels, now, emitted, pollErrs,
                 faults, inprog>>

\* QueryRaises with the exception leaving start
QueryRaisesEndsLoop ==
  /\ pc = "sleep"
  /\ running
  /\ MayRaise(0)
  /\ faults' = faults + 1
  /\ pc' = "returned"
  /\ UNCHANGED <<videos, nextId, users, configured, wait, response, args, ret,
                 s3Errs, running, life, job, labels, now, cyc, cfault, cur,
                 rooms, evt, emitted, pollErrs, inprog>>

\* poll_pending_videos: the find raises; start logs it and sleeps
QueryRaises ==
  /\ pc = "sleep"
  /\ running
  /\ MayRaise(0)
  /\ faults' = faults + 1
  /\ cyc' = [v \in VideoIds |-> "none"]
  /\ cfault' = [v \in VideoIds |-> {}]
  /\ Resume(cyc')
  /\ UNCHANGED <<videos, nextId, users, configured, wait, response, args, ret,
                 s3Errs, running, life, job, labels, now, emitted, pollErrs,
                 inprog>>

\* PollRaises with the exception leaving the for loop
PollRaisesAbortsBatch(v) ==
  /\ pc = "poll" /\ cyc[v] = "todo"
  /\ MayRaise(0)
  /\ pollErrs' = pollErrs + 1
  /\ cyc' = [cyc EXCEPT ![v] = "raise"]
  /\ pc' = "sleep"
  /\ UNCHANGED <<videos, nextId, users, configured, wait, response, args, ret,
                 s3Errs, running, life, job, labels, now, cfault, cur, rooms,
                 evt, emitted, faults, inprog>>

\* PollRaises with the video marked failed on a poll error
PollRaisesGivesUp(v) ==
  /\ pc = "poll" /\ cyc[v] = "todo"
  /\ MayRaise(0)
  /\ pollErrs' = pollErrs + 1
  /\ cyc' = [cyc EXCEPT ![v] = "raise"]
  /\ videos' = update_one(videos, v, FailureSet("poll error", now))
  /\ Resume(cyc')
  /\ UNCHANGED <<nextId, users, configured, wait, response, args, ret, s3Errs,
                 running, life, job, labels, now, cfault, emitted, faults,
                 inprog>>

\* get_content_moderation_results raises for v
PollRaises(v) ==
  /\ pc = "poll" /\ cyc[v] = "todo"
  /\ MayRaise(0)
  /\ pollErrs' = pollErrs + 1
  /\ cyc' = [cyc EXCEPT ![v] = "raise"]
  /\ Resume(cyc')
  /\ UNCHANGED <<videos, nextId, users, configured, wait, response, args, ret,
                 s3Errs, running, life, job, labels, now, cfault, emitted,
                 faults, inprog>>

\* PollInProgress with a cap on the attempts: the video is marked failed
PollInProgressTimesOut(v) ==
  /\ pc = "poll" /\ cyc[v] = "todo"
  /\ job[v] = "IN_PROGRESS"
  /\ cyc' = [cyc EXCEPT ![v] = "IN_PROGRESS"]
  /\ inprog' = IF inprog < MaxPolls THEN inprog + 1 ELSE inprog
  /\ videos' = IF inprog >= 1
                THEN update_one(videos, v, FailureSet("timed out", now))
                ELSE videos
  /\ Resume(cyc')
  /\ UNCHANGED <<nextId, users, configured, wait, response, args, ret, s3Errs,
                 running, life, job, labels, now, cfault, emitted, pollErrs,
                 faults>>

\* get_content_moderation_results answers IN_PROGRESS for v
PollInProgress(v) ==
  /\ pc = "poll" /\ cyc[v] = "todo"
  /\ job[v] = "IN_PROGRESS"
  /\ cyc' = [cyc EXCEPT ![v] = "IN_PROGRESS"]
  /\ inprog' = IF inprog < MaxPolls THEN inprog + 1 ELSE inprog
  /\ Resume(cyc')
  /\ UNCHANGED <<videos, nextId, users, configured, wait, response, args, ret,
                 s3Errs, running, life, job, labels, now, cfault, emitted,
                 pollErrs, faults>>

\* PollOther treating the unknown status as a failure of the job
PollOtherMarksFailed(v) ==
  /\ pc = "poll" /\ cyc[v] = "todo"
  /\ job[v] \in OtherJobStatus
  /\ cyc' = [cyc EXCEPT ![v] = job[v]]
  /\ process_failure(videos, v, "Unknown job status", 0, {})
  /\ UNCHANGED <<nextId, users, configured, wait, response, args, ret, s3Errs,
                 running, life, job, labels, now, emitted, pollErrs, inprog>>

\* get_content_moderation_results answers another status for v: the
\* warning is logged and the loop goes on
PollOther(v) ==
  /\ pc = "poll" /\ cyc[v] = "todo"
  /\ job[v] \in OtherJobStatus
  /\ cyc' = [cyc EXCEPT ![v] = job[v]]
  /\ Resume(cyc')
  /\ UNCHANGED <<videos, nextId, users, configured, wait, response, args, ret,
                 s3Errs, running, life, job, labels, now, cfault, emitted,
                 pollErrs, faults, inprog>>

\* get_content_moderation_results answers FAILED for v: process_failure
PollFailed(v) ==
  /\ pc = "poll" /\ cyc[v] = "todo"
  /\ job[v] = "FAILED"
  /\ cyc' = [cyc EXCEPT ![v] = "FAILED"]
  /\ process_failure(videos, v, "Rekognition job failed", 0, {})
  /\ UNCHANGED <<nextId, users, configured, wait, response, args, ret, s3Errs,
                 running, life, job, labels, now, emitted, pollErrs, inprog>>

\* get_content_moderation_results answers SUCCEEDED for v: process_success,
\* up to its first await
PollSucceeded(v) ==
  /\ pc = "poll" /\ cyc[v] = "todo"
  /\ job[v] = "SUCCEEDED"
  /\ cyc' = [cyc EXCEPT ![v] = "SUCCEEDED"]
  /\ \/ \* parse_moderation_labels raises
        /\ ParseRaises(labels[v])
        /\ process_failure(videos, v, "TypeError", 0, {"parse"})
     \/ \* update_one raises
        /\ ~ParseRaises(labels[v])
        /\ MayRaise(0)
        /\ process_failure(videos, v, "update error", 1, {"success_update"})
     \/ \* update_one returns, db.users.find_one raises
        /\ ~ParseRaises(labels[v])
        /\ MayRaise(0)
        /\ process_failure(
             update_one(videos, v, SuccessSet(parse_moderation_labels(labels[v]), now)),
             v, "lookup error", 1, {"lookup"})
     \/ \* update_one returns, the events are about to be emitted
        /\ ~ParseRaises(labels[v])
        /\ videos' = update_one(videos, v,
                       SuccessSet(parse_moderation_labels(labels[v]), now))
        /\ pc' = "emit"
        /\ cur' = {v}
        /\ rooms' = target_rooms(AdminId)
        /\ evt' = CompletedEvent(v, AdminId, parse_moderation_labels(labels[v]))
        /\ UNCHANGED <<faults, cfault>>
  /\ UNCHANGED <<nextId, users, configured, wait, response, args, ret, s3Errs,
                 running, life, job, labels, now, emitted, pollErrs, inprog>>

\* sio.emit to the next target room is delivered
EmitOk ==
  /\ pc = "emit"
  /\ emitted' = Deliver(emitted, evt, Head(rooms))
  /\ IF Tail(rooms) = <<>>
       THEN Resume(cyc)
       ELSE /\ rooms' = Tail(rooms)
            /\ UNCHANGED <<pc, cur, evt>>
  /\ UNCHANGED <<videos, nextId, users, configured, wait, response, args, ret,
                 s3Errs, running, life, job, labels, now, cyc, cfault,
                 pollErrs, faults, inprog>>

\* sio.emit raises: inside process_success the except clause runs
\* process_failure; inside process_failure it is logged
EmitRaises ==
  /\ pc = "emit"
  /\ MayRaise(0)
  /\ cyc' = cyc
  /\ \E v \in cur :
       IF evt.name = "processing_completed"
         THEN process_failure(videos, v, "emit error", 1, {"emit"})
         ELSE /\ faults' = faults + 1
              /\ cfault' = [cfault EXCEPT ![v] = @ \cup {"failure_emit"}]
              /\ Resume(cyc)
              /\ UNCHANGED videos
  /\ UNCHANGED <<nextId, users, configured, wait, response, args, ret, s3Errs,
                 running, life, job, labels, now, emitted, pollErrs, inprog>>

\* start: `while self.running` is false after the sleep, start returns
LoopExits ==
  /\ pc = "sleep"
  /\ ~running
  /\ pc' = "returned"
  /\ UNCHANGED <<videos, nextId, users, configured, wait, response, args, ret,
                 s3Errs, running, life, job, labels, now, cyc, cfault, cur,
                 rooms, evt, emitted, pollErrs, faults, inprog>>

\* RekognitionPoller.stop, as lifespan awaits it on shutdown
stop ==
  /\ life = "serving"
  /\ running' = FALSE
  /\ life' = "stopped"
  /\ UNCHANGED <<videos, nextId, users, configured, wait, response, args, ret,
                 s3Errs, job, labels, now, pc, cyc, cfault, cur, rooms, evt,
                 emitted, pollErrs, faults, inprog>>

\* lifespan: poller_task.cancel() and the await of the task. CancelledError
\* is raised in the task where it is suspended; no `except Exception` of the
\* poller catches it, so the task ends there. A task that has returned is
\* left as it is.
cancel_task ==
  /\ life = "stopped"
  /\ life' = "cancelled"
  /\ pc' = IF pc = "returned" THEN pc ELSE "cancelled"
  /\ UNCHANGED <<videos, nextId, users, configured, wait, response, args, ret,
                 s3Errs, running, job, labels, now, cyc, cfault, cur, rooms,
                 evt, emitted, pollErrs, faults, inprog>>

poll_pending_videos ==
  \/ Query
  \/ QueryRaises
  \/ \E v \in VideoIds :
       PollRaises(v) \/ PollInProgress(v) \/ PollFailed(v) \/ PollSucceeded(v)
  \/ EmitOk
  \/ EmitRaises

(* ------------------------------------------------------------------ *)
(* services/aws_rekognition_analyzer.py: wait_for_job_completion        *)
(* ------------------------------------------------------------------ *)
\* the locals of a call: the two settings read from the environment,
\* elapsed_time, the number of status queries made (saturating at
\* MaxQueries), where the call is, result['status'] of the latest query,
\* and what the call returned or raised
Waiting(poll_interval, max_wait) ==
  [rekognition_poll_interval |-> poll_interval,
   rekognition_max_wait |-> max_wait,
   elapsed_time |-> 0,
   queries |-> 0,
   pc |-> "while",
   status |-> None,
   result |-> None]

\* wait_for_job_completion is not called
NoWait == [Waiting(0, 0) EXCEPT !.pc = "idle"]

\* what get_content_moderation_results answers, or "raise"
QueryOutcomes ==
  {"IN_PROGRESS", "SUCCEEDED", "FAILED", "raise"} \cup OtherJobStatus

\* one iteration of the while loop: the status query, then the return of a
\* terminal result, or the sleep and the addition to elapsed_time
wait_iteration ==
  \E outcome \in QueryOutcomes :
    /\ wait.pc = "while"
    /\ wait.elapsed_time < wait.rekognition_max_wait
    /\ wait' =
         [wait EXCEPT
            !.queries = IF @ < MaxQueries THEN @ + 1 ELSE @,
            !.status = IF outcome = "raise" THEN None ELSE outcome,
            !.pc = CASE outcome \in {"SUCCEEDED", "FAILED"} -> "returned"
                     [] outcome = "raise" -> "raised"
                     [] OTHER -> "while",
            !.result = CASE outcome \in {"SUCCEEDED", "FAILED"} -> outcome
                         [] outcome = "raise" -> "ClientError"
                         [] OTHER -> None,
            !.elapsed_time = IF outcome \in {"SUCCEEDED", "FAILED", "raise"}
                               THEN @ ELSE @ + wait.rekognition_poll_interval]
    /\ UNCHANGED <<videos, nextId, users, configured, job, labels, now, pc,
                   cyc, cfault, cur, rooms, evt, emitted, pollErrs, faults,
                   inprog, running, life, s3Errs, args, ret, response>>

\* the loop test fails: raise TimeoutError
wait_timeout ==
  /\ wait.pc = "while"
  /\ ~(wait.elapsed_time < wait.rekognition_max_wait)
  /\ wait' = [wait EXCEPT !.pc = "raised", !.result = "TimeoutError"]
  /\ UNCHANGED <<videos, nextId, users, configured, job, labels, now, pc,
                 cyc, cfault, cur, rooms, evt, emitted, pollErrs, faults,
                 inprog, running, life, s3Errs, args, ret, response>>

wait_for_job_completion == wait_iteration \/ wait_timeout

(* ------------------------------------------------------------------ *)
(* The Result Processor called directly                                 *)
(* ------------------------------------------------------------------ *)
RECURSIVE DeliverAll(_, _, _)
DeliverAll(bag, event, target) ==
  IF target = <<>> THEN bag
  ELSE DeliverAll(Deliver(bag, event, Head(target)), event, Tail(target))

\* process_success_store with an update that has no _id in its filter
process_success_updates_all(store, v, t) ==
  [x \in DOMAIN store |->
     update_one(store, x,
       IF ParseRaises(labels[v]) THEN FailureSet("TypeError", t)
       ELSE SuccessSet(parse_moderation_labels(labels[v]), t))[x]]

\* process_success(video, job_result) run to its return on the document of v
\* with the result of its finished job, nothing raising but the parse: the
\* collection it leaves
process_success_store(store, v, t) ==
  IF ParseRaises(labels[v])
    THEN update_one(store, v, FailureSet("TypeError", t))
    ELSE update_one(store, v, SuccessSet(parse_moderation_labels(labels[v]), t))

\* the same run of process_success: the events delivered after it
process_success_events(bag, v) ==
  IF ParseRaises(labels[v])
    THEN Deliver(bag, FailedEvent(v, AdminId, "TypeError"), AdminId)
    ELSE DeliverAll(bag,
           CompletedEvent(v, AdminId, parse_moderation_labels(labels[v])),
           target_rooms(AdminId))

\* process_success called directly on the document of v: what a second
\* RekognitionPoller on the same database (another worker process), or a
\* test of the processor, does
process_success_call(v) ==
  /\ v \in DOMAIN videos
  /\ job[v] = "SUCCEEDED"
  /\ BagCardinality(emitted) < MaxDirectEvents
  /\ videos' = process_success_store(videos, v, now)
  /\ emitted' = process_success_events(emitted, v)
  /\ UNCHANGED <<nextId, users, configured, wait, response, args, ret, s3Errs,
                 running, life, job, labels, now, pc, cyc, cfault, cur, rooms,
                 evt, pollErrs, faults, inprog>>

(* ------------------------------------------------------------------ *)
(* parse_moderation_labels called directly                              *)
(* ------------------------------------------------------------------ *)
\* one entry of ModerationLabels, of the segment at `timestamp`
SegmentLabel(timestamp, name, confidence, parent) ==
  [Timestamp |-> timestamp,
   ModerationLabel |-> [Name |-> name, Confidence |-> confidence, ParentName |-> parent]]

\* the entries the label lists are made of: flaggable by name, the same name
\* in a later segment, suggestive only, flaggable by parent only, one per
\* bucket keyword, a name with the keywords of two buckets, and an entry
\* whose Confidence is not a number
LabelAlphabet ==
  { Label("Weapons", 91, ""),
    SegmentLabel(1000, "Weapons", 60, ""),
    Label("Suggestive", 99, ""),
    Label("Pistol", 70, "Weapons"),
    Label("Explicit Nudity", 80, ""),
    Label("Corpses", 75, ""),
    Label("Sexual Violence", 85, "Violence"),
    Label("Weapons", NullConfidence, "") }

\* the label lists of at most `longest` entries
LabelLists(longest) == UNION {[1..n -> LabelAlphabet] : n \in 0..longest}

\* the lists parse_moderation_labels is called on directly, and the shorter
\* ones that are also the result of a job
ClassifierInputs == LabelLists(MaxLabels)
JobLabelLists == LabelLists(MaxJobLabels)

\* what a call that raises leaves its caller with
Raised(exception) == [raised |-> exception]

\* parse_call with a classifier that keeps its label count between calls
parse_call_keeps_count ==
  /\ Len(ret) < MaxCalls
  /\ ret' = Append(ret,
       IF ParseRaises(args) THEN Raised("TypeError")
       ELSE [parse_moderation_labels(args) EXCEPT
               !.total_labels = @ + (IF ret = <<>> THEN 0 ELSE Len(args))])
  /\ UNCHANGED <<videos, nextId, users, configured, wait, response, job, labels,
                 now, pc, cyc, cfault, cur, rooms, evt, emitted, pollErrs,
                 faults, inprog, running, life, s3Errs, args>>

\* one call parse_moderation_labels(args)
parse_call ==
  /\ Len(ret) < MaxCalls
  /\ ret' = Append(ret,
       IF ParseRaises(args) THEN Raised("TypeError")
       ELSE parse_moderation_labels(args))
  /\ UNCHANGED <<videos, nextId, users, configured, wait, response, job, labels,
                 now, pc, cyc, cfault, cur, rooms, evt, emitted, pollErrs,
                 faults, inprog, running, life, s3Errs, args>>

(* ------------------------------------------------------------------ *)
(* The system                                                           *)
(* ------------------------------------------------------------------ *)
\* the state after construction, but for the label list of the direct calls
Constructed ==
  /\ videos = [v \in {} |-> None]
  /\ nextId = 1
  /\ users = [a \in {AdminId} |-> <<EditorId>>]
  /\ configured \in BOOLEAN
  /\ job = [v \in VideoIds |-> "NONE"]
  /\ labels = [v \in VideoIds |-> <<>>]
  /\ now = 0
  /\ pc = "start"
  /\ cyc = [v \in VideoIds |-> "none"]
  /\ cfault = [v \in VideoIds |-> {}]
  /\ cur = {}
  /\ rooms = <<>>
  /\ evt = NoEvent
  /\ emitted = EmptyBag
  /\ pollErrs = 0
  /\ faults = 0
  /\ inprog = 0
  /\ running = FALSE
  /\ life = "serving"
  /\ s3Errs = 0
  /\ ret = <<>>
  /\ response = NoResponse

Init == Constructed /\ args = <<>> /\ wait = NoWait

Next ==
  \/ upload_video
  \/ update_video
  \/ delete_video
  \/ JobSucceeds
  \/ JobFails
  \/ Start
  \/ poll_pending_videos

Spec == Init /\ [][Next]_vars

\* the pipeline without the poller task: the Result Processor is called on
\* documents directly, and the clock advances between calls
DirectNext ==
  \/ upload_video
  \/ register
  \/ JobSucceeds
  \/ Tick
  \/ \E v \in VideoIds : process_success_call(v)

DirectSpec == Init /\ [][DirectNext]_vars

\* the pipeline while it runs: no shutdown, no deletion; the poll loop keeps
\* taking steps, every remote job finishes, and only MaxFaults calls raise.
\* Titles and verdicts play no part in termination: one title, and the job
\* results that take the two ways out of the parse (it returns, it raises).
LiveUpload == upload_video_titled({"t1"})

LiveJobResults == {<<>>, <<Label("Weapons", NullConfidence, "")>>}

LiveJobSucceeds == JobSucceedsWith(LiveJobResults)

LiveNext ==
  \/ LiveUpload
  \/ LiveJobSucceeds
  \/ JobFails
  \/ Start
  \/ poll_pending_videos

LiveSpec ==
  /\ Init
  /\ [][LiveNext]_vars
  /\ WF_vars(Start \/ poll_pending_videos)
  /\ WF_vars(LiveJobSucceeds \/ JobFails)

\* the pipeline with its shutdown: stop() at any moment of the start task,
\* the cancellation of the task after it
ShutdownNext ==
  \/ LiveUpload
  \/ LiveJobSucceeds
  \/ JobFails
  \/ Start
  \/ poll_pending_videos
  \/ LoopExits
  \/ stop
  \/ cancel_task

ShutdownSpec == Init /\ [][ShutdownNext]_vars

\* wait_for_job_completion called with every pair of settings up to the
\* bounds; the thread that runs it keeps running
WaitInit ==
  /\ Constructed
  /\ args = <<>>
  /\ wait \in {Waiting(poll_interval, max_wait) :
                 poll_interval \in 0..MaxInterval, max_wait \in 0..MaxWait}

WaitNext == wait_iteration \/ wait_timeout

WaitSpec == WaitInit /\ [][WaitNext]_vars /\ WF_vars(WaitNext)

\* the pipeline with jobs that answer a status the poller does not know
UnknownNext ==
  \/ LiveUpload
  \/ delete_video
  \/ LiveJobSucceeds
  \/ JobFails
  \/ JobTurnsUnknown
  \/ Start
  \/ poll_pending_videos
  \/ \E v \in VideoIds : PollOther(v)

UnknownSpec == Init /\ [][UnknownNext]_vars

\* the pipeline with the stream requests
StreamNext ==
  \/ LiveUpload
  \/ stream_video
  \/ LiveJobSucceeds
  \/ JobFails
  \/ Start
  \/ poll_pending_videos

StreamSpec == Init /\ [][StreamNext]_vars

\* the pipeline with the edit requests: a title, a filename or both
EditVideo == update_video_fields({None, "t2"}, {None} \cup Filenames)

EditNext ==
  \/ LiveUpload
  \/ EditVideo
  \/ LiveJobSucceeds
  \/ JobFails
  \/ Start
  \/ poll_pending_videos

EditSpec == Init /\ [][EditNext]_vars

\* the classifier on its own: a label list is given and
\* parse_moderation_labels is called on it
ParseInit == Constructed /\ args \in ClassifierInputs /\ wait = NoWait

ParseNext == parse_call

ParseSpec == ParseInit /\ [][ParseNext]_vars

\* the classifier in the running system: a label list is given,
\* parse_moderation_labels is called on it, and the pipeline processes the
\* jobs that end with that same list
ClassifierInit == Constructed /\ args \in JobLabelLists /\ wait = NoWait

ClassifierJobSucceeds == JobSucceedsWith({args})

ClassifierNext ==
  \/ parse_call
  \/ LiveUpload
  \/ ClassifierJobSucceeds
  \/ \E v \in VideoIds : process_success_call(v)

ClassifierSpec == ClassifierInit /\ [][ClassifierNext]_vars

(* ------------------------------------------------------------------ *)
(* Vocabulary of the properties                                         *)
(* ------------------------------------------------------------------ *)
Exists(v) == v \in DOMAIN videos
IsPending(v) ==
  /\ Exists(v)
  /\ videos[v].status = "processing_pending"
  /\ videos[v].rekognitionJobId # None
IsTerminal(v) == Exists(v) /\ videos[v].status \in TerminalStatus

\* the document of v is as upload_video wrote it, but for title and filename
AsUploaded(v) ==
  /\ videos[v].status = "processing_pending"
  /\ videos[v].processingProgress = 0
  /\ videos[v].sensitivityStatus = None
  /\ videos[v].analysis.status = "IN_PROGRESS"

\* the events delivered so far about v
EventsAbout(v) == {e \in BagToSet(emitted) : e.data.videoId = v}

\* the Result Processor is not in the middle of handling v
Returned(v) == ~(pc = "emit" /\ v \in cur)

\* v was answered SUCCEEDED or FAILED in this cycle
Finished(v) == cyc[v] \in {"SUCCEEDED", "FAILED"}

\* a step of the poller in which get_content_moderation_results raised
PollRaisedStep == pollErrs' > pollErrs

\* a step of the poller in which its find returned (and that changed something)
QueriedStep ==
  /\ pc = "sleep"
  /\ pollErrs' = pollErrs /\ faults' = faults
  /\ pc' \in {"poll", "sleep"}
  /\ <<pc', cyc', cfault'>> # <<pc, cyc, cfault>>

\* a step in which sio.emit raised
EmitRaisedStep == pc = "emit" /\ faults' > faults

(* ------------------------------------------------------------------ *)
(* C1                                                                   *)
(* ------------------------------------------------------------------ *)
\* C1: once the status of a video is completed, failed or flagged, no step
\* changes it: as long as the document exists it keeps that same value.
C1_TerminalStatusIsFinal ==
  [][\A v \in VideoIds :
       (IsTerminal(v) /\ v \in DOMAIN videos')
         => videos'[v].status = videos[v].status]_vars

(* ------------------------------------------------------------------ *)
(* C3                                                                   *)
(* ------------------------------------------------------------------ *)
\* C3: when a poll cycle is over, every video its query discovered has been
\* polled; a video whose poll raised is still processing_pending as uploaded;
\* and a video answered SUCCEEDED or FAILED has a terminal status, whatever
\* happened to the other videos of the cycle (unless its own failure-path
\* write raised, or a request deleted it in between).
C3_PollerIsolation ==
  pc = "sleep" =>
    \A v \in VideoIds :
      /\ cyc[v] # "todo"
      /\ (cyc[v] = "raise" /\ Exists(v)) => AsUploaded(v)
      /\ (Finished(v) /\ Exists(v) /\ "failure_update" \notin cfault[v])
           => IsTerminal(v)

\* a finished cycle in which the poll of one video raised and another video
\* was taken to a terminal status
C3_Witness ==
  /\ pc = "sleep"
  /\ \E v, w \in VideoIds :
       /\ v # w
       /\ cyc[v] = "raise" /\ IsPending(v)
       /\ Finished(w) /\ IsTerminal(w)

(* ------------------------------------------------------------------ *)
(* C5                                                                   *)
(* ------------------------------------------------------------------ *)
\* C5: a step in which sio.emit raises (the terminal update of the video is
\* already written then) leaves every video document as it is.
C5_EmitFailureKeepsState == [][EmitRaisedStep => videos' = videos]_vars

(* ------------------------------------------------------------------ *)
(* C4                                                                   *)
(* ------------------------------------------------------------------ *)
\* a video marked failed that had a job: its job has left IN_PROGRESS; and a
\* processing_pending video is as uploaded, with no event about it
C4_NoGivingUp ==
  \A v \in VideoIds :
    /\ (Exists(v) /\ videos[v].status = "failed" /\ videos[v].rekognitionJobId # None)
         => job[v] \in {"SUCCEEDED", "FAILED"}
    /\ IsPending(v) => (AsUploaded(v) /\ EventsAbout(v) = {})

\* C4: a poll that raises leaves every document unchanged and emits nothing,
\* the next query selects every video that is still processing_pending with a
\* job id, and no number of poll errors or IN_PROGRESS answers makes the
\* poller mark a video failed: a failed video's job has left IN_PROGRESS.
C4_PollErrorIsRetried ==
  /\ []C4_NoGivingUp
  /\ [][/\ PollRaisedStep => (videos' = videos /\ emitted' = emitted)
        /\ QueriedStep => \A v \in VideoIds : IsPending(v) => cyc'[v] = "todo"]_vars

\* the only video ever uploaded, selected once more after MaxFaults polls of
\* it raised and IN_PROGRESS answers in between
C4_Witness ==
  /\ nextId = 2
  /\ pollErrs >= 2
  /\ inprog >= 1
  /\ IsPending(1)
  /\ cyc[1] = "todo"

(* ------------------------------------------------------------------ *)
(* C6                                                                   *)
(* ------------------------------------------------------------------ *)
\* some label of the job result names a flaggable category, itself or by its parent
HasFlaggableLabel(moderation_labels) ==
  \E i \in 1..Len(moderation_labels) :
    \/ moderation_labels[i].ModerationLabel.Name \in flagged_categories
    \/ moderation_labels[i].ModerationLabel.ParentName \in flagged_categories

\* C6: a video answered SUCCEEDED in this cycle, with nothing raising, is
\* flagged/flagged when its result has a flaggable label and completed/safe
\* otherwise, with progress 100; and always, completed goes with safe and
\* flagged with flagged, both with progress 100.
C6_SuccessVerdict ==
  \A v \in VideoIds :
    Exists(v) =>
      /\ (cyc[v] = "SUCCEEDED" /\ cfault[v] = {})
           => /\ videos[v].status =
                   IF HasFlaggableLabel(labels[v]) THEN "flagged" ELSE "completed"
              /\ videos[v].processingProgress = 100
      /\ videos[v].status = "completed"
           => (videos[v].sensitivityStatus = "safe" /\ videos[v].processingProgress = 100)
      /\ videos[v].status = "flagged"
           => (videos[v].sensitivityStatus = "flagged" /\ videos[v].processingProgress = 100)

\* one video completed on an empty label list and another one flagged, both
\* handled without error and the processor back from them
C6_Witness ==
  \E v, w \in VideoIds :
    /\ Exists(v) /\ Exists(w)
    /\ cyc[v] = "SUCCEEDED" /\ cfault[v] = {} /\ Returned(v)
    /\ labels[v] = <<>> /\ videos[v].status = "completed"
    /\ cyc[w] = "SUCCEEDED" /\ cfault[w] = {} /\ Returned(w)
    /\ videos[w].status = "flagged"

(* ------------------------------------------------------------------ *)
(* C7                                                                   *)
(* ------------------------------------------------------------------ *)
\* C7: after a cycle in which its job answered IN_PROGRESS a video is still
\* processing_pending as uploaded and no event about it has been emitted;
\* after the cycle in which the job answered FAILED (the failure write not
\* raising) it is failed, with progress 0 and a non-empty error reason.
C7_InProgressThenFailed ==
  \A v \in VideoIds :
    Exists(v) =>
      /\ cyc[v] = "IN_PROGRESS" => (AsUploaded(v) /\ EventsAbout(v) = {})
      /\ (cyc[v] = "FAILED" /\ "failure_update" \notin cfault[v])
           => /\ videos[v].status = "failed"
              /\ videos[v].processingProgress = 0
              /\ videos[v].analysis.status = "FAILED"
              /\ videos[v].analysis.error # ""

\* the only video ever uploaded: IN_PROGRESS in two cycles, nothing raised,
\* then FAILED, and the cycle is over
C7_Witness ==
  /\ nextId = 2
  /\ inprog >= 2
  /\ pollErrs = 0 /\ faults = 0
  /\ pc = "sleep"
  /\ cyc[1] = "FAILED"
  /\ Exists(1) /\ videos[1].status = "failed"

(* ------------------------------------------------------------------ *)
(* C8                                                                   *)
(* ------------------------------------------------------------------ *)
\* the parse or the success update raised for v in this cycle, and
\* process_success has returned
SuccessPathRaised(v) ==
  /\ Exists(v)
  /\ cyc[v] = "SUCCEEDED"
  /\ cfault[v] \cap {"parse", "success_update"} # {}
  /\ Returned(v)

\* C8 as stated: once process_success has returned from an exception in the
\* parse or in the success update, the video is failed with the error
\* recorded, never still processing_pending.
C8_AlwaysFailedOnReturn ==
  \A v \in VideoIds :
    SuccessPathRaised(v)
      => /\ videos[v].status = "failed"
         /\ videos[v].analysis.status = "FAILED"
         /\ videos[v].analysis.error # ""

\* C8: once process_success has returned from an exception in the parse or in
\* the success update, the video is failed with the error recorded, unless the
\* update of process_failure raised as well: then the document is unchanged,
\* still processing_pending as uploaded.
C8_FailedUnlessFailureWriteRaised ==
  \A v \in VideoIds :
    SuccessPathRaised(v)
      => IF "failure_update" \in cfault[v]
           THEN AsUploaded(v)
           ELSE /\ videos[v].status = "failed"
                /\ videos[v].processingProgress = 0
                /\ videos[v].analysis.status = "FAILED"
                /\ videos[v].analysis.error # ""

\* the success update raised for one video and the parse for another; both
\* are failed and the cycle is over
C8_Witness ==
  /\ pc = "sleep"
  /\ \E v, w \in VideoIds :
       /\ SuccessPathRaised(v) /\ cfault[v] = {"success_update"}
       /\ videos[v].status = "failed" /\ videos[v].analysis.error = "update error"
       /\ SuccessPathRaised(w) /\ cfault[w] = {"parse"}
       /\ videos[w].status = "failed"

(* ------------------------------------------------------------------ *)
(* C10                                                                  *)
(* ------------------------------------------------------------------ *)
\* a step in which the poller asks for the job of v
PolledStep(v) == pc = "poll" /\ cyc[v] = "todo" /\ cyc'[v] # "todo"

\* a step in which the poller hands v to process_success or process_failure
ProcessedStep(v) == PolledStep(v) /\ cyc'[v] \in {"SUCCEEDED", "FAILED"}

\* C10: the query of a cycle selects exactly the videos that are
\* processing_pending with a job id; a video waiting for its poll is one of
\* them; and the poller polls, and hands to the Result Processor, only videos
\* that were not terminal when they were selected (a video processed is
\* still processing_pending, unless a request deleted it in between).
C10_OnlyPendingIsPolled ==
  /\ [](\A v \in VideoIds : (cyc[v] = "todo" /\ Exists(v)) => IsPending(v))
  /\ [][/\ QueriedStep =>
             \A v \in VideoIds :
               cyc'[v] = (IF IsPending(v) THEN "todo" ELSE "none")
        /\ \A v \in VideoIds :
             /\ PolledStep(v) => ~IsTerminal(v)
             /\ (ProcessedStep(v) /\ Exists(v)) => IsPending(v)]_vars

\* a video made terminal by an earlier cycle is left out by a query that
\* selects another one
C10_Witness ==
  \E v, w \in VideoIds :
    /\ IsTerminal(v)
    /\ videos[v].rekognitionJobId # None
    /\ cyc[v] = "none"
    /\ cyc[w] = "todo"
    /\ pc = "poll"

(* ------------------------------------------------------------------ *)
(* C9                                                                   *)
(* ------------------------------------------------------------------ *)
\* C9: process_success called on a video that is already terminal, with the
\* result of its job, leaves status, sensitivityStatus and the analysis
\* result, timestamp included, as they were before the call.
C9_SecondCallIsNoOp ==
  [][\A v \in VideoIds :
       (IsTerminal(v) /\ process_success_call(v))
         => /\ videos'[v].status = videos[v].status
            /\ videos'[v].sensitivityStatus = videos[v].sensitivityStatus
            /\ videos'[v].analysis = videos[v].analysis]_vars

(* ------------------------------------------------------------------ *)
(* C2                                                                   *)
(* ------------------------------------------------------------------ *)
\* C2: while the poll loop keeps running, every remote job eventually leaves
\* IN_PROGRESS and only finitely many calls raise, every video that is
\* processing_pending with a job id eventually has a terminal status.
C2_EventuallyTerminal ==
  \A v \in VideoIds : IsPending(v) ~> IsTerminal(v)

\* both videos terminal after MaxFaults poll errors and an IN_PROGRESS answer
C2_Witness ==
  /\ pollErrs >= 2
  /\ inprog >= 1
  /\ \A v \in VideoIds : IsTerminal(v) /\ videos[v].rekognitionJobId # None

(* ------------------------------------------------------------------ *)
(* C11                                                                  *)
(* ------------------------------------------------------------------ *)
\* the channels of an owner: its own and those of its connected accounts
Recipients(user_id) ==
  {user_id} \cup {users[user_id][i] : i \in 1..Len(users[user_id])}

\* the events a step delivers to `room`
NewEvents(room) ==
  {e \in BagToSet(emitted') :
     e.room = room /\ CopiesIn(e, emitted') > CopiesIn(e, emitted)}

\* C11: one successful run of process_success on a video whose owner has n
\* connected accounts delivers n + 1 events in all: exactly one
\* processing_completed event about that video to the channel of the owner
\* and to that of each connected account, and nothing to any other channel.
C11_SuccessFanOut ==
  [][\A v \in VideoIds :
       (process_success_call(v) /\ ~ParseRaises(labels[v]))
         => /\ BagCardinality(emitted') - BagCardinality(emitted)
                 = Len(users[AdminId]) + 1
            /\ \A room \in Recipients(AdminId) :
                 \E e \in NewEvents(room) :
                   /\ NewEvents(room) = {e}
                   /\ CopiesIn(e, emitted') = CopiesIn(e, emitted) + 1
                   /\ e.name = "processing_completed"
                   /\ e.data.videoId = v
            /\ \A room \in ({AdminId} \cup Editors) \ Recipients(AdminId) :
                 NewEvents(room) = {}]_vars

\* an owner with two connected accounts: the one transition of its video to
\* completed has delivered three events, one to each of the three channels
C11_Witness ==
  /\ Len(users[AdminId]) = 2
  /\ BagCardinality(emitted) = 3
  /\ \E v \in VideoIds :
       /\ Exists(v) /\ videos[v].status = "completed"
       /\ {e.room : e \in EventsAbout(v)} = {AdminId} \cup Editors
       /\ \A e \in EventsAbout(v) : e.name = "processing_completed"

(* ------------------------------------------------------------------ *)
(* C12                                                                  *)
(* ------------------------------------------------------------------ *)
\* C12: once the processor is back from a video whose job answered FAILED,
\* nothing having raised, a processing_failed event about the video has been
\* delivered to the channel of the owner and to the channel of every account
\* connected to the owner.
C12_FailureFanOut ==
  \A v \in VideoIds :
    (Exists(v) /\ cyc[v] = "FAILED" /\ cfault[v] = {} /\ Returned(v))
      => \A room \in Recipients(AdminId) :
           \E e \in EventsAbout(v) :
             e.name = "processing_failed" /\ e.room = room

(* ------------------------------------------------------------------ *)
(* C13                                                                  *)
(* ------------------------------------------------------------------ *)
\* the owner's channel has received a completion or a failure event about v
OwnerNotified(v) ==
  \E e \in EventsAbout(v) :
    /\ e.room = AdminId
    /\ e.name \in {"processing_completed", "processing_failed"}

\* C13: while the poll loop keeps running, every remote job eventually
\* finishes and only finitely many calls raise, the owner's channel
\* eventually receives a processing_completed or a processing_failed event
\* about every video submitted with a job.
C13_OwnerEventuallyNotified ==
  \A v \in VideoIds : IsPending(v) ~> OwnerNotified(v)

(* ------------------------------------------------------------------ *)
(* C14                                                                  *)
(* ------------------------------------------------------------------ *)
\* a step in which a call made by the poller raised
RaisedStep == pollErrs' + faults' > pollErrs + faults

\* the start task is in its loop: asleep, polling, or emitting
InLoop(p) == p \in {"sleep", "poll", "emit"}

\* C14: a started poller has returned only after stop(); a step in which the
\* query, a poll, a store update or an emit raises leaves the task in its
\* loop; start returns only from its sleep with running false (or at once,
\* unconfigured); and whenever the loop is asleep with running true the next
\* cycle can begin.
C14_LoopSurvivesErrors ==
  /\ [](/\ pc = "returned" => (~configured \/ life # "serving")
        /\ (pc = "sleep" /\ running) => ENABLED Query)
  /\ [][/\ RaisedStep => InLoop(pc')
        /\ (pc' = "returned" /\ pc # "returned")
             => \/ pc = "start" /\ ~configured
                \/ pc = "sleep" /\ ~running /\ life # "serving"]_vars

\* before any shutdown, a new cycle is polling after a poll raised and a
\* store or emit call raised in earlier cycles
C14_Witness ==
  /\ life = "serving"
  /\ pollErrs >= 1
  /\ faults >= 1
  /\ pc = "poll"
  /\ \A v \in VideoIds : cfault[v] = {} /\ cyc[v] # "raise"

(* ------------------------------------------------------------------ *)
(* C15                                                                  *)
(* ------------------------------------------------------------------ *)
\* C15: the shutdown does not end the poller task while a poll of a video is
\* outstanding, nor between the terminal update of a video and the emission
\* of its events: the task is ended only asleep (or before its first step).
C15_ShutdownFinishesCurrentVideo ==
  [][pc' = "cancelled" => pc \notin {"poll", "emit"}]_vars

(* ------------------------------------------------------------------ *)
(* C16                                                                  *)
(* ------------------------------------------------------------------ *)
\* C16: once stop() has returned, and without the task being cancelled, the
\* loop begins no new poll cycle: no find of poll_pending_videos is made.
C16_NoCycleAfterStop ==
  [][life = "stopped" => ~(Query \/ QueryRaises)]_vars

(* ------------------------------------------------------------------ *)
(* C17                                                                  *)
(* ------------------------------------------------------------------ *)
\* a step of upload_video that inserts its document
UploadStep == nextId' = nextId + 1

\* the step leaves the documents already there as they are and adds one,
\* under the id nextId
InsertsOne ==
  /\ nextId \notin DOMAIN videos
  /\ DOMAIN videos' = DOMAIN videos \cup {nextId}
  /\ \A v \in DOMAIN videos : videos'[v] = videos[v]

\* C17: an upload whose store or job submission raised (the analyzer exists
\* and no job was started) creates exactly one record, with status failed, a
\* null job id and the error text in its analysis data; and no record ever
\* has status pending.
C17_SubmitFailureRecorded ==
  /\ [](\A v \in VideoIds : Exists(v) => videos[v].status # "pending")
  /\ [][(UploadStep /\ configured /\ job'[nextId] = "NONE")
          => /\ InsertsOne
             /\ videos'[nextId].status = "failed"
             /\ videos'[nextId].rekognitionJobId = None
             /\ DOMAIN videos'[nextId].analysis = {"error"}]_vars

\* a record of a failed submission beside one of a started job
C17_Witness ==
  \E v, w \in VideoIds :
    /\ Exists(v) /\ videos[v].status = "failed"
    /\ videos[v].rekognitionJobId = None
    /\ videos[v].analysis = [error |-> "submit error"]
    /\ IsPending(w)

(* ------------------------------------------------------------------ *)
(* C18                                                                  *)
(* ------------------------------------------------------------------ *)
\* C18: an upload that started a job creates exactly one record, with status
\* processing_pending, the job id returned and processingProgress 0; and
\* every processing_pending video has a non-null job id, so that the query
\* of the poller matches it.
C18_PendingHasJobId ==
  /\ [](\A v \in VideoIds :
          (Exists(v) /\ videos[v].status = "processing_pending")
            => /\ videos[v].rekognitionJobId # None
               /\ v \in pending_videos(videos))
  /\ [][(UploadStep /\ job'[nextId] = "IN_PROGRESS")
          => /\ InsertsOne
             /\ videos'[nextId].status = "processing_pending"
             /\ videos'[nextId].rekognitionJobId = JobId(nextId)
             /\ videos'[nextId].analysis.rekognition_job_id = JobId(nextId)
             /\ videos'[nextId].processingProgress = 0]_vars

\* two records of started jobs, the second uploaded after a failed poll of
\* the first
C18_Witness ==
  /\ pollErrs >= 1
  /\ \A v \in VideoIds :
       /\ Exists(v) /\ videos[v].status = "processing_pending"
       /\ videos[v].rekognitionJobId = JobId(v)
       /\ job[v] # "NONE"

(* ------------------------------------------------------------------ *)
(* C19                                                                  *)
(* ------------------------------------------------------------------ *)
\* C19: a video holds a non-null job id only while its status is
\* processing_pending; a completed, flagged or failed video holds none.
C19_JobIdOnlyWhilePending ==
  \A v \in VideoIds :
    (Exists(v) /\ videos[v].rekognitionJobId # None)
      => videos[v].status = "processing_pending"

(* ------------------------------------------------------------------ *)
(* C20                                                                  *)
(* ------------------------------------------------------------------ *)
\* C20: a processing_pending video has processingProgress 0, and a video has
\* processingProgress 100 only if its status is completed or flagged.
C20_ProgressFollowsStatus ==
  \A v \in VideoIds :
    Exists(v) =>
      /\ videos[v].processingProgress \in {0, 100}
      /\ videos[v].status = "processing_pending" => videos[v].processingProgress = 0
      /\ videos[v].processingProgress = 100
           => videos[v].status \in {"completed", "flagged"}

\* a video that was completed with progress 100 and then marked failed
\* because an emit raised, beside a video that is flagged
C20_Witness ==
  \E v, w \in VideoIds :
    /\ Exists(v) /\ videos[v].status = "failed"
    /\ videos[v].sensitivityStatus = "safe"
    /\ videos[v].processingProgress = 0
    /\ Exists(w) /\ videos[w].status = "flagged"
    /\ videos[w].processingProgress = 100

(* ------------------------------------------------------------------ *)
(* C21                                                                  *)
(* ------------------------------------------------------------------ *)
\* C21: the analysis field of a record is written once, by the update that
\* makes the status terminal: a step changes the analysis of an existing
\* record only if the status was not terminal before it and is terminal
\* after it, so no later step writes the field a second time.
C21_ResultWrittenOnce ==
  [][\A v \in VideoIds :
       (Exists(v) /\ v \in DOMAIN videos'
          /\ videos'[v].analysis # videos[v].analysis)
         => (~IsTerminal(v) /\ videos'[v].status \in TerminalStatus)]_vars

(* ------------------------------------------------------------------ *)
(* C22                                                                  *)
(* ------------------------------------------------------------------ *)
\* the direct calls of parse_moderation_labels that returned a result
ReturnedCalls == {i \in 1..Len(ret) : "raised" \notin DOMAIN ret[i]}

\* C22: whenever parse_moderation_labels returns for a label list, is_flagged
\* is true exactly when some label of the list has its name or its parent in
\* the flaggable set, and flags is non-empty exactly then, whatever the
\* confidences of the labels.
C22_FlagDecision ==
  \A i \in ReturnedCalls :
    /\ ret[i].is_flagged = HasFlaggableLabel(args)
    /\ (ret[i].flags # <<>>) = HasFlaggableLabel(args)

\* the call returned for a suggestive label of confidence 99 followed by a
\* label that is flaggable by its parent only
C22_Witness ==
  /\ args = <<Label("Suggestive", 99, ""), Label("Pistol", 70, "Weapons")>>
  /\ ReturnedCalls # {}
  /\ \A i \in ReturnedCalls : ret[i].is_flagged /\ ret[i].flags = <<"Pistol">>

(* ------------------------------------------------------------------ *)
(* C23                                                                  *)
(* ------------------------------------------------------------------ *)
\* the four bucket lists of a result
Buckets(analysis) ==
  <<analysis.violence_flags, analysis.nsfw_flags,
    analysis.disturbing_flags, analysis.other_flags>>

\* C23: in every result, each entry of flags is in exactly one of
\* violence_flags, nsfw_flags, disturbing_flags and other_flags, and each
\* entry of these four lists is an entry of flags.
C23_BucketsPartitionFlags ==
  \A i \in ReturnedCalls :
    LET buckets == Buckets(ret[i])
    IN  /\ \A j \in 1..Len(ret[i].flags) :
             Cardinality({b \in 1..4 : InList(ret[i].flags[j], buckets[b])}) = 1
        /\ \A b \in 1..4 : \A j \in 1..Len(buckets[b]) :
             InList(buckets[b][j], ret[i].flags)

(* ------------------------------------------------------------------ *)
(* C24                                                                  *)
(* ------------------------------------------------------------------ *)
\* the positions of the list at which a flagging label has this name
FlaggingPositions(moderation_labels, name) ==
  {p \in 1..Len(moderation_labels) :
     /\ moderation_labels[p].ModerationLabel.Name = name
     /\ HasFlaggableLabel(<<moderation_labels[p]>>)}

\* the least element of a non-empty set of positions
First(positions) == CHOOSE p \in positions : \A q \in positions : p <= q

\* C24: flags holds each flagging label name of the list once, and the names
\* stand in the order in which they first occur in the list.
C24_FlagsDedupedInOrder ==
  \A i \in ReturnedCalls :
    LET flags == ret[i].flags
    IN  /\ \A j, k \in 1..Len(flags) : j # k => flags[j] # flags[k]
        /\ {flags[j] : j \in 1..Len(flags)} =
             {args[p].ModerationLabel.Name :
                p \in {q \in 1..Len(args) : HasFlaggableLabel(<<args[q]>>)}}
        /\ \A j, k \in 1..Len(flags) :
             j < k => First(FlaggingPositions(args, flags[j]))
                        < First(FlaggingPositions(args, flags[k]))

\* the call returned for a name in two segments with another name between
C24_Witness ==
  /\ args = <<Label("Weapons", 91, ""), Label("Pistol", 70, "Weapons"),
              SegmentLabel(1000, "Weapons", 60, "")>>
  /\ ReturnedCalls # {}
  /\ \A i \in ReturnedCalls : ret[i].flags = <<"Weapons", "Pistol">>

(* ------------------------------------------------------------------ *)
(* C25                                                                  *)
(* ------------------------------------------------------------------ *)
\* the job of v ended with the single label Weapons and its result was processed
ProcessedWeapons(v) ==
  /\ Exists(v)
  /\ job[v] = "SUCCEEDED"
  /\ labels[v] = <<Label("Weapons", 91, "")>>
  /\ videos[v].status # "processing_pending"

\* C25: a video whose job succeeded with the single label Weapons ends
\* flagged/flagged with flags = [Weapons] and violence_flags = [Weapons]; and
\* in every result a flag is in the violence bucket iff its lower-cased name
\* contains violence or weapon, in nsfw iff it contains nudity or sexual, in
\* disturbing iff it contains disturbing, corpse or injury, and in other iff
\* it contains none of these.
C25_WeaponsScenarioAndBuckets ==
  /\ \A v \in VideoIds :
       ProcessedWeapons(v) =>
         /\ videos[v].status = "flagged"
         /\ videos[v].sensitivityStatus = "flagged"
         /\ videos[v].analysis.flags = <<"Weapons">>
         /\ videos[v].analysis.violence_flags = <<"Weapons">>
  /\ \A i \in ReturnedCalls : \A j \in 1..Len(ret[i].flags) :
       LET f == ret[i].flags[j]
           Has(kw) == Contains(Lower(f), kw)
           violence == Has("violence") \/ Has("weapon")
           nsfw == Has("nudity") \/ Has("sexual")
           disturbing == Has("disturbing") \/ Has("corpse") \/ Has("injury")
       IN  /\ InList(f, ret[i].violence_flags) = violence
           /\ InList(f, ret[i].nsfw_flags) = nsfw
           /\ InList(f, ret[i].disturbing_flags) = disturbing
           /\ InList(f, ret[i].other_flags) = ~(violence \/ nsfw \/ disturbing)

\* the Weapons job was processed, and the classifier called on that list
C25_Witness ==
  /\ \E v \in VideoIds : ProcessedWeapons(v) /\ videos[v].status = "flagged"
  /\ ReturnedCalls # {}
  /\ \A i \in ReturnedCalls : ret[i].violence_flags = <<"Weapons">>

(* ------------------------------------------------------------------ *)
(* C26                                                                  *)
(* ------------------------------------------------------------------ *)
\* a step in which parse_moderation_labels was called directly
ParseCalledStep == Len(ret') = Len(ret) + 1

GreatestConfidence(moderation_labels) ==
  IF moderation_labels = <<>> THEN 0
  ELSE LET confidences ==
             {moderation_labels[p].ModerationLabel.Confidence :
                p \in 1..Len(moderation_labels)}
       IN  CHOOSE c \in confidences : \A d \in confidences : d <= c

\* the least and the greatest confidence of the labels the lists are made of
ConfidenceValues == {60, 99}

\* the list with the confidence of each label replaced
WithConfidences(moderation_labels, confidences) ==
  [p \in 1..Len(moderation_labels) |->
     [moderation_labels[p] EXCEPT !.ModerationLabel.Confidence = confidences[p]]]

\* C27: the confidence of a result is the greatest confidence of the labels
\* of the list, flagging or not, and 0 for the empty list; and the list with
\* any other confidences gives the same is_flagged and the same flags.
C27_ConfidenceIsMaxAndUnused ==
  LET decisions ==
        {<<other.is_flagged, other.flags>> :
           other \in {parse_moderation_labels(WithConfidences(args, confidences)) :
                        confidences \in [1..Len(args) -> ConfidenceValues]}}
  IN  \A i \in ReturnedCalls :
        /\ ret[i].confidence = GreatestConfidence(args)
        /\ decisions = {<<ret[i].is_flagged, ret[i].flags>>}

\* the call returned for a flagging label below a more confident suggestive one
C27_Witness ==
  /\ args = <<Label("Weapons", 91, ""), Label("Suggestive", 99, "")>>
  /\ ReturnedCalls # {}
  /\ \A i \in ReturnedCalls : ret[i].confidence = 99 /\ ret[i].flags = <<"Weapons">>

(* ------------------------------------------------------------------ *)
(* C28                                                                  *)
(* ------------------------------------------------------------------ *)
\* C28: every processing_completed and processing_failed event delivered
\* carries the video id, the owner id and a terminal status, and a non-empty
\* message when that status is flagged or failed.
C28_TerminalEventPayload ==
  \A e \in BagToSet(emitted) :
    /\ {"videoId", "userId", "status"} \subseteq DOMAIN e.data
    /\ e.data.status \in TerminalStatus
    /\ e.data.status \in {"flagged", "failed"}
         => ("message" \in DOMAIN e.data /\ e.data.message # "")

(* ------------------------------------------------------------------ *)
(* C29                                                                  *)
(* ------------------------------------------------------------------ *)
\* v is in the store, its job has ended with a result, nothing processed it
Outstanding(v) == IsPending(v) /\ job[v] = "SUCCEEDED"

\* status, progress, sensitivityStatus and verdict of a document (the time
\* of the write left out)
Outcome(doc) ==
  <<doc.status, doc.processingProgress, doc.sensitivityStatus,
    [k \in DOMAIN doc.analysis \ {"completed_at", "failed_at"} |-> doc.analysis[k]]>>

Outcomes(store) == [v \in DOMAIN store |-> Outcome(store[v])]

\* C29: when the result of a video a is processed while another video b is
\* outstanding, processing b next leaves the store (status, progress,
\* sensitivityStatus and verdict of every video) and the delivered events as
\* processing b first and a after it would have.
C29_ProcessingCommutes ==
  [][\A a, b \in VideoIds :
       (a # b /\ Outstanding(a) /\ Outstanding(b) /\ process_success_call(a))
         => /\ Outcomes(process_success_store(videos', b, now'))
                 = Outcomes(process_success_store(
                              process_success_store(videos, b, now), a, now))
            /\ process_success_events(emitted', b)
                 = process_success_events(process_success_events(emitted, b), a)]_vars

\* both videos were processed, one flagged and one safe, and both announced
C29_Witness ==
  \E a, b \in VideoIds :
    /\ Exists(a) /\ Exists(b)
    /\ videos[a].status = "flagged" /\ videos[b].status = "completed"
    /\ EventsAbout(a) # {} /\ EventsAbout(b) # {}

(* ------------------------------------------------------------------ *)
(* C30                                                                  *)
(* ------------------------------------------------------------------ *)
\* a step of delete_video in which delete_object raised
DeleteObjectRaisedStep == s3Errs' = s3Errs + 1

\* C30: in every step in which the deletion of the stored object raised, the
\* document of a video that has an S3 key is removed from the store and
\* nothing else changes: delete_video went on to its delete_one and returned.
C30_DeleteIsBestEffort ==
  [][DeleteObjectRaisedStep =>
       \E v \in DOMAIN videos :
         /\ videos[v].s3Key # None
         /\ videos' = delete_one(videos, v)
         /\ v \notin DOMAIN videos'
         /\ UNCHANGED <<job, labels, emitted, pc, cyc, cfault, faults, pollErrs>>]_vars

\* a deletion whose delete_object raised has removed the only document
C30_Witness ==
  /\ s3Errs > 0
  /\ nextId > 1
  /\ DOMAIN videos = {}

(* ------------------------------------------------------------------ *)
(* C31                                                                  *)
(* ------------------------------------------------------------------ *)
\* C31: a video whose status is failed has no sensitivityStatus: no record
\* is failed while it carries a safe or flagged verdict.
C31_FailedHasNoVerdict ==
  \A v \in VideoIds :
    (Exists(v) /\ videos[v].status = "failed")
      => videos[v].sensitivityStatus = None

(* ------------------------------------------------------------------ *)
(* C32                                                                  *)
(* ------------------------------------------------------------------ *)
\* the rooms an event can be delivered to
Rooms == {AdminId} \cup Editors

\* the number of events about v delivered to a room
Received(v, room) ==
  BagCardinality(
    [e \in {x \in BagToSet(emitted) : x.data.videoId = v /\ x.room = room}
       |-> CopiesIn(e, emitted)])

\* C32: a room receives at most one terminal event about a video over the
\* whole execution, so never a processing_completed and a processing_failed
\* event about the same video.
C32_OneTerminalEventPerRoom ==
  \A v \in VideoIds, room \in Rooms : Received(v, room) <= 1

(* ------------------------------------------------------------------ *)
(* C33                                                                  *)
(* ------------------------------------------------------------------ *)
\* C33: when an emit of the fan-out of processing_completed raises while
\* rooms remain, the fan-out goes on: the same event is still to be emitted
\* to each of the remaining rooms.
C33_FanOutSurvivesEmitError ==
  [][(EmitRaisedStep /\ evt.name = "processing_completed" /\ Tail(rooms) # <<>>)
       => (pc' = "emit" /\ evt' = evt /\ rooms' = Tail(rooms))]_vars

(* ------------------------------------------------------------------ *)
(* C34                                                                  *)
(* ------------------------------------------------------------------ *)
\* the status an event announces
Announced(e) ==
  IF e.name = "processing_failed" THEN "failed" ELSE e.data.status

\* C34: whenever an event is delivered, the store holds the video the event
\* names, with the status the event announces; so no event is delivered
\* about a video that delete_video removed after the poller found it.
C34_EventsAgreeWithStore ==
  [][\A room \in Rooms : \A e \in NewEvents(room) :
       /\ e.data.videoId \in DOMAIN videos
       /\ videos[e.data.videoId].status = Announced(e)]_vars

(* ------------------------------------------------------------------ *)
(* C35                                                                  *)
(* ------------------------------------------------------------------ *)
\* the fields of a document that update_video has no business with
Processing(doc) ==
  <<doc.status, doc.processingProgress, doc.sensitivityStatus,
    doc.rekognitionJobId, doc.analysis, doc.userId, doc.s3Key>>

\* a step that changes the title or the filename of v: an update_video
EditedStep(v) ==
  /\ Exists(v) /\ v \in DOMAIN videos'
  /\ \/ videos'[v].title # videos[v].title
     \/ videos'[v].filename # videos[v].filename

\* C35: a step of update_video changes nothing but the title and the
\* filename of its video: status, processingProgress, sensitivityStatus, job
\* id and analysis of every video stay as they are, and no video is added
\* or removed. So no step writes both kinds of fields: the poller's updates
\* leave title and filename alone, and neither write is lost whatever the
\* order of the two.
C35_EditKeepsProcessingFields ==
  [][\A v \in VideoIds :
       EditedStep(v) =>
         /\ DOMAIN videos' = DOMAIN videos
         /\ \A w \in DOMAIN videos :
              Processing(videos'[w]) = Processing(videos[w])]_vars

\* a video edited while the poller was handling it: terminal, with the
\* title and the filename of the request
C35_Witness ==
  \E v \in VideoIds :
    /\ Exists(v)
    /\ cyc[v] = "SUCCEEDED"
    /\ videos[v].status = "completed" /\ videos[v].processingProgress = 100
    /\ videos[v].title = "t2" /\ videos[v].filename = "g.mp4"

(* ------------------------------------------------------------------ *)
(* C36                                                                  *)
(* ------------------------------------------------------------------ *)
\* the answer hands out an access URL
HandsOutUrl(answer) == answer.status_code = 307 \/ answer.url # None

\* an answer that is an error and carries no URL
IsError(answer) == answer.status_code >= 400 /\ answer.url = None

\* C36: a request answered with an access URL is for a video whose status,
\* when the request is handled, is uploaded or completed; and for a video
\* in any other status of the enumeration (flagged, processing_pending,
\* failed, pending, processing) every answer is an error without URL,
\* whatever S3 does.
C36_StreamOnlyWhenReady ==
  /\ [][(response' # response /\ HandsOutUrl(response'))
          => /\ response'.videoId \in DOMAIN videos
             /\ videos[response'.videoId].status \in {"uploaded", "completed"}]_vars
  /\ [](\A v \in DOMAIN videos :
          \A video_status \in VideoStatus \ {"uploaded", "completed"} :
            \A head_object \in S3Outcomes :
              IsError(StreamAnswer(v, [videos EXCEPT ![v].status = video_status],
                                   configured, head_object)))

\* the last request was answered with the URL of a completed video while
\* a failed video is in the store
C36_Witness ==
  /\ response.status_code = 307
  /\ \E v \in VideoIds : Exists(v) /\ videos[v].status = "completed"
                          /\ response.videoId = v
  /\ \E w \in VideoIds : Exists(w) /\ videos[w].status = "failed"

(* ------------------------------------------------------------------ *)
(* C37                                                                  *)
(* ------------------------------------------------------------------ *)
\* the status query for v returned a status that is none of the three
PolledOtherStep(v) ==
  PolledStep(v) /\ ~PollRaisedStep /\ job[v] \in OtherJobStatus

\* C37: when the status query of a video returns a status other than
\* IN_PROGRESS, SUCCEEDED or FAILED, the step changes no record (the video,
\* if still stored, is and stays processing_pending), delivers and prepares
\* no event, and the loop goes on with the videos of the cycle that are
\* still to be polled.
C37_UnknownStatusIsSkipped ==
  [][\A v \in VideoIds : PolledOtherStep(v) =>
       /\ videos' = videos
       /\ Exists(v) => videos'[v].status = "processing_pending"
       /\ emitted' = emitted
       /\ evt' = NoEvent /\ rooms' = <<>>
       /\ \A w \in VideoIds \ {v} : cyc'[w] = cyc[w]
       /\ pc' = IF \E w \in VideoIds \ {v} : cyc[w] = "todo"
                 THEN "poll" ELSE "sleep"]_vars

\* in one cycle a video's query answered an unknown status, the video is
\* still processing_pending, and another video of the cycle was completed
C37_Witness ==
  \E v, w \in VideoIds :
    /\ v # w
    /\ Exists(v) /\ cyc[v] \in OtherJobStatus
    /\ videos[v].status = "processing_pending"
    /\ Exists(w) /\ cyc[w] = "SUCCEEDED" /\ videos[w].status = "completed"
    /\ EventsAbout(v) = {}

(* ------------------------------------------------------------------ *)
(* C38                                                                  *)
(* ------------------------------------------------------------------ *)
\* the call is over: it returned or it raised
WaitOver == wait.pc \in {"returned", "raised"}

\* ceil(max_wait / poll_interval), and zero when max_wait is 0
QueryBound ==
  IF wait.rekognition_max_wait = 0 THEN 0
  ELSE (wait.rekognition_max_wait + wait.rekognition_poll_interval - 1)
         \div wait.rekognition_poll_interval

\* C38: for every non-negative poll interval and max wait the call of
\* wait_for_job_completion comes to an end; a result whose status is
\* SUCCEEDED or FAILED is returned as soon as a query answers it, and the
\* call that raises TimeoutError has made at most
\* ceil(max_wait / poll_interval) status queries (none when max_wait is 0).
C38_WaitTerminates ==
  /\ <>WaitOver
  /\ [](wait.status \in {"SUCCEEDED", "FAILED"}
          <=> (wait.pc = "returned" /\ wait.result = wait.status))
  /\ []((wait.pc = "raised" /\ wait.result = "TimeoutError")
          => wait.queries <= QueryBound)

====
